---- MODULE Spec2Model ----
(***************************************************************************)
(* MicrowaveEngine of "Final_Project SDEV220/microwave_systems.py".        *)
(*                                                                         *)
(* The engine is driven by one command thread (the Tk main loop, which     *)
(* calls start_cooking, stop_cooking, pause_cooking and resume_cooking)    *)
(* and by the daemon threads it spawns, each running _cooking_timer.       *)
(* No lock protects the engine's fields, so every read and every write of  *)
(* a field shared between threads is a step of its own: a command's        *)
(* position is mpc, a timer thread's position is its pc, and the value a   *)
(* thread holds between a read and the write that uses it is a local of    *)
(* that thread (rt, arr).                                                  *)
(*                                                                         *)
(* Timer threads run the same code and are never joined or named by the    *)
(* engine (timer_thread is only ever assigned), so the live threads are    *)
(* kept as a bag of thread states.  The "start_time" of a history record   *)
(* is a wall-clock string no code reads back; records keep the other       *)
(* three keys.                                                             *)
(*                                                                         *)
(* The queries get_status, get_cooking_history and calculate_defrost_time   *)
(* run on the command thread as well.                                      *)
(***************************************************************************)
EXTENDS Integers, Sequences, FiniteSets, Bags, TLC

\* ---- bounds of the model ------------------------------------------------
\* Spec: every interleaving of the command thread with up to MaxThreads timers
MaxDur == 2
MaxSessions == 2
MaxThreads == 2
\* SpecSmall: the same program under smaller bounds
SmallDur == 1
SmallSessions == 1
SmallThreads == 1
\* SpecDefrost: weights of 0 to MaxQuarters quarters of the 500 g portion
MaxQuarters == 8
\* SpecStatus: get_status called during sessions with up to two timer threads
StatusDur == 1
StatusSessions == 1
StatusThreads == 2
\* SpecLive: every interleaving of one session with up to two timer threads
LiveDur == 1
LiveSessions == 1
LiveThreads == 2
\* SpecSensor: two timer threads, two reading values, the readings logged
SensorDur == 1
SensorSessions == 1
SensorThreads == 2

\* ---- program constants --------------------------------------------------
SensorSize == 10
SensorLow == 20
SensorHigh == 100
HIGH == 100
LOW == 30

\* lines 122-124: the default base time, the portion in grams, the seconds of
\* a minute
DefaultBase == 3
PortionGrams == 500
SecondsPerMinute == 60

NoStage == "None"
COOK == "cook"
DEFROST == "defrost"

VARIABLES
    is_running,       \* self.is_running
    remaining_time,   \* self.remaining_time
    current_power,    \* self.current_power
    current_stage,    \* self.current_stage
    sensor_data,      \* self.sensor_data
    cooking_history,  \* self.cooking_history
    timers,           \* bag of the live _cooking_timer threads
    mpc,              \* position of the command thread
    margs,            \* arguments of the command being executed
    op,               \* history: the command called last; a start that has passed
                      \* line 65 is start_resume or start_new
    ret,              \* history: what the last returned command returned
    ticks,            \* history: decrements (line 96) since line 73 of the start
                      \* called last, 0 once another command has been called
    paused_at,        \* history: fields at the call of a pause not yet followed
                      \* by a command other than resume
    bound,            \* the bounds of the run, fixed by the initial state
    was,              \* history: Status at the call of the command in progress
    status,           \* the dict get_status builds, kept once returned
    defrost,          \* a call of calculate_defrost_time: arguments and result
    fed,              \* history: the readings line 100 has stored, in order,
                      \* kept only when bound.log
    during            \* history: the values View has had since the call of the
                      \* get_status in progress

vars == <<is_running, remaining_time, current_power, current_stage, sensor_data,
          cooking_history, timers, mpc, margs, op, ret, ticks, paused_at, bound,
          was, status, defrost, fed, during>>

\* the variables only the queries and the sensor log write
aux == <<status, defrost, fed, during>>

engine == <<is_running, remaining_time, current_power, current_stage, sensor_data,
            cooking_history>>

\* inputs of start_cooking, and the values np.random.uniform(20, 100) is drawn from
Durations == 0..bound.dur
PowerStage == {<<HIGH, COOK>>, <<LOW, DEFROST>>}
Readings == IF bound.log THEN {SensorLow, SensorHigh} ELSE {SensorLow}

NoArgs == [d |-> 0, p |-> 0, s |-> NoStage]
NoPause == [valid |-> FALSE, rem |-> 0, pow |-> 0, stage |-> NoStage]

\* no get_status has returned yet, no calculate_defrost_time has been called
NoStatus == [running |-> FALSE, remaining_time |-> 0, current_power |-> 0,
             current_stage |-> NoStage, sensor_reading |-> 0]
NoDefrost == [food_type |-> "none", thickness |-> "none", weight_grams |-> 0,
              seconds |-> 0]

\* what the tests of lines 61 and 65 tell apart: running, paused (stopped with
\* time left), idle
Phase ==
    IF is_running THEN "Running"
    ELSE IF remaining_time > 0 THEN "Paused" ELSE "Idle"

\* the five values get_status reports, as they are in the engine now
View ==
    [running |-> is_running, remaining_time |-> remaining_time,
     current_power |-> current_power, current_stage |-> current_stage,
     sensor_reading |-> IF Len(sensor_data) > 0 THEN sensor_data[Len(sensor_data)] ELSE 0]

\* a get_status is in progress
InStatus == mpc \in {"status_134", "status_137"}

\* a step of a timer thread that changes a reported value is seen by during
Seen == during' = IF InStatus THEN during \cup {View'} ELSE during

\* ---- __init__ -----------------------------------------------------------
Engine0 ==
    /\ is_running = FALSE
    /\ remaining_time = 0
    /\ current_power = HIGH
    /\ current_stage = NoStage
    /\ sensor_data = [i \in 1..SensorSize |-> 0]
    /\ cooking_history = <<>>
    /\ timers = EmptyBag
    /\ mpc = "idle"
    /\ margs = NoArgs
    /\ op = "none"
    /\ ret = "None"
    /\ ticks = 0
    /\ paused_at = NoPause
    /\ was = "none"
    /\ status = NoStatus
    /\ fed = <<>>
    /\ during = {}

Init ==
    /\ Engine0
    /\ defrost = NoDefrost
    /\ bound = [dur |-> MaxDur, sessions |-> MaxSessions, threads |-> MaxThreads,
                log |-> FALSE]

InitSmall ==
    /\ Engine0
    /\ defrost = NoDefrost
    /\ bound = [dur |-> SmallDur, sessions |-> SmallSessions, threads |-> SmallThreads,
                log |-> FALSE]

InitSensor ==
    /\ Engine0
    /\ defrost = NoDefrost
    /\ bound = [dur |-> SensorDur, sessions |-> SensorSessions,
                threads |-> SensorThreads, log |-> TRUE]

InitStatus ==
    /\ Engine0
    /\ defrost = NoDefrost
    /\ bound = [dur |-> StatusDur, sessions |-> StatusSessions,
                threads |-> StatusThreads, log |-> FALSE]

InitLive ==
    /\ Engine0
    /\ defrost = NoDefrost
    /\ bound = [dur |-> LiveDur, sessions |-> LiveSessions,
                threads |-> LiveThreads, log |-> FALSE]

\* ---- threads ------------------------------------------------------------
NewTimer == [pc |-> "test_rt", rt |-> 0, arr |-> <<>>]

\* threading.Thread(target=self._cooking_timer, daemon=True).start()
SpawnTimer(b) == b (+) SetToBag({NewTimer})

Alive == BagCardinality(timers)

\* thread t moves to state u
Becomes(t, u) == timers' = (timers (-) SetToBag({t})) (+) SetToBag({u})

At(t, pc) == [pc |-> pc, rt |-> 0, arr |-> <<>>]

\* ---- start_cooking ------------------------------------------------------
\* start_cooking without the test of line 61: a running engine is started again
StartCooking_NoRunningTest(d, p, s) ==
    /\ mpc = "idle"
    /\ is_running \/ Alive < bound.threads
    /\ op' = "start"
    /\ paused_at' = NoPause
    /\ mpc' = "start_65"
    /\ margs' = [d |-> d, p |-> p, s |-> s]
    /\ ret' = "None"
    /\ was' = Phase
    /\ ticks' = 0
    /\ UNCHANGED <<engine, timers, bound, aux>>

\* the call and line 61: a running engine rejects the call
StartCooking(d, p, s) ==
    /\ mpc = "idle"
    /\ is_running \/ Alive < bound.threads
    /\ op' = "start"
    /\ paused_at' = NoPause
    /\ IF is_running
       THEN /\ ret' = "False"
            /\ UNCHANGED <<mpc, margs, was>>
       ELSE /\ mpc' = "start_65"
            /\ margs' = [d |-> d, p |-> p, s |-> s]
            /\ ret' = "None"
            /\ was' = Phase
    /\ ticks' = 0
    /\ UNCHANGED <<engine, timers, bound, aux>>

\* line 65: a positive remaining_time means paused
StartTestPaused ==
    /\ mpc = "start_65"
    /\ remaining_time > 0 \/ Len(cooking_history) < bound.sessions
    /\ mpc' = IF remaining_time > 0 THEN "start_66" ELSE "start_72"
    /\ op' = IF remaining_time > 0 THEN "start_resume" ELSE "start_new"
    /\ UNCHANGED <<engine, timers, margs, ret, ticks, paused_at, bound, was, aux>>

\* line 66
StartResumeSetRunning ==
    /\ mpc = "start_66"
    /\ is_running' = TRUE
    /\ mpc' = "start_67"
    /\ UNCHANGED <<remaining_time, current_power, current_stage, sensor_data,
                   cooking_history, timers, margs, op, ret, ticks, paused_at, bound, was, aux>>

\* lines 67-69
StartResumeSpawn ==
    /\ mpc = "start_67"
    /\ timers' = SpawnTimer(timers)
    /\ mpc' = "idle"
    /\ margs' = NoArgs
    /\ ret' = "True"
    /\ was' = "none"
    /\ UNCHANGED <<engine, op, ticks, paused_at, bound, aux>>

\* line 72
StartSetRunning ==
    /\ mpc = "start_72"
    /\ is_running' = TRUE
    /\ mpc' = "start_73"
    /\ UNCHANGED <<remaining_time, current_power, current_stage, sensor_data,
                   cooking_history, timers, margs, op, ret, ticks, paused_at, bound, was, aux>>

\* line 73
StartSetTime ==
    /\ mpc = "start_73"
    /\ remaining_time' = margs.d
    /\ ticks' = 0
    /\ mpc' = "start_74"
    /\ UNCHANGED <<is_running, current_power, current_stage, sensor_data,
                   cooking_history, timers, margs, op, ret, paused_at, bound, was, aux>>

\* lines 74-75: no other thread reads or writes these two fields
StartSetPowerStage ==
    /\ mpc = "start_74"
    /\ current_power' = margs.p
    /\ current_stage' = margs.s
    /\ mpc' = "start_78"
    /\ UNCHANGED <<is_running, remaining_time, sensor_data, cooking_history,
                   timers, margs, op, ret, ticks, paused_at, bound, was, aux>>

\* lines 78-79
StartSpawn ==
    /\ mpc = "start_78"
    /\ timers' = SpawnTimer(timers)
    /\ mpc' = "start_88"
    /\ UNCHANGED <<engine, margs, op, ret, ticks, paused_at, bound, was, aux>>

\* start_cooking returning True without the append of line 88
StartRecord_NoAppend ==
    /\ mpc = "start_88"
    /\ mpc' = "idle"
    /\ margs' = NoArgs
    /\ ret' = "True"
    /\ was' = "none"
    /\ UNCHANGED <<engine, timers, op, ticks, paused_at, bound, aux>>

\* start_cooking keeping only the record of the new session
StartRecord_Overwrites ==
    /\ mpc = "start_88"
    /\ cooking_history' = <<[duration |-> margs.d, power |-> margs.p,
                             stage |-> margs.s]>>
    /\ mpc' = "idle"
    /\ margs' = NoArgs
    /\ ret' = "True"
    /\ was' = "none"
    /\ UNCHANGED <<is_running, remaining_time, current_power, current_stage,
                   sensor_data, timers, op, ticks, paused_at, bound, aux>>

\* lines 82-90
StartRecord ==
    /\ mpc = "start_88"
    /\ cooking_history' = Append(cooking_history,
                                 [duration |-> margs.d, power |-> margs.p,
                                  stage |-> margs.s])
    /\ mpc' = "idle"
    /\ margs' = NoArgs
    /\ ret' = "True"
    /\ was' = "none"
    /\ UNCHANGED <<is_running, remaining_time, current_power, current_stage,
                   sensor_data, timers, op, ticks, paused_at, bound, aux>>

\* ---- stop_cooking -------------------------------------------------------
\* the call and line 106
StopCooking ==
    /\ mpc = "idle"
    /\ is_running' = FALSE
    /\ mpc' = "stop_107"
    /\ op' = "stop"
    /\ ret' = "None"
    /\ paused_at' = NoPause
    /\ ticks' = 0
    /\ was' = Phase
    /\ UNCHANGED <<remaining_time, current_power, current_stage, sensor_data,
                   cooking_history, timers, margs, bound, aux>>

\* stop_cooking that also puts current_power and current_stage back to what
\* __init__ set
StopClearTime_ResetsPower ==
    /\ mpc = "stop_107"
    /\ remaining_time' = 0
    /\ current_power' = HIGH
    /\ current_stage' = NoStage
    /\ mpc' = "idle"
    /\ was' = "none"
    /\ UNCHANGED <<is_running, sensor_data,
                   cooking_history, timers, margs, op, ret, ticks, paused_at, bound, aux>>

\* line 107
StopClearTime ==
    /\ mpc = "stop_107"
    /\ remaining_time' = 0
    /\ mpc' = "idle"
    /\ was' = "none"
    /\ UNCHANGED <<is_running, current_power, current_stage, sensor_data,
                   cooking_history, timers, margs, op, ret, ticks, paused_at, bound, aux>>

\* ---- pause_cooking ------------------------------------------------------
\* pause_cooking that also clears remaining_time, as stop_cooking does
PauseCooking_ClearsTime ==
    /\ mpc = "idle"
    /\ is_running' = FALSE
    /\ remaining_time' = 0
    /\ op' = "pause"
    /\ ret' = "None"
    /\ ticks' = 0
    /\ paused_at' = IF is_running
                    THEN [valid |-> TRUE, rem |-> remaining_time,
                          pow |-> current_power, stage |-> current_stage]
                    ELSE NoPause
    /\ UNCHANGED <<current_power, current_stage, sensor_data,
                   cooking_history, timers, mpc, margs, bound, was, aux>>

\* line 111
PauseCooking ==
    /\ mpc = "idle"
    /\ is_running' = FALSE
    /\ op' = "pause"
    /\ ret' = "None"
    /\ ticks' = 0
    /\ paused_at' = IF is_running
                    THEN [valid |-> TRUE, rem |-> remaining_time,
                          pow |-> current_power, stage |-> current_stage]
                    ELSE NoPause
    /\ UNCHANGED <<remaining_time, current_power, current_stage, sensor_data,
                   cooking_history, timers, mpc, margs, bound, was, aux>>

\* ---- resume_cooking -----------------------------------------------------
\* the call and line 115
ResumeCooking ==
    /\ mpc = "idle"
    /\ remaining_time <= 0 \/ Alive < bound.threads
    /\ op' = "resume"
    /\ ret' = "None"
    /\ paused_at' = IF op = "pause" THEN paused_at ELSE NoPause
    /\ mpc' = IF remaining_time > 0 THEN "resume_116" ELSE "idle"
    /\ was' = IF remaining_time > 0 THEN Phase ELSE "none"
    /\ ticks' = 0
    /\ UNCHANGED <<engine, timers, margs, bound, aux>>

\* line 116
ResumeSetRunning ==
    /\ mpc = "resume_116"
    /\ is_running' = TRUE
    /\ mpc' = "resume_117"
    /\ UNCHANGED <<remaining_time, current_power, current_stage, sensor_data,
                   cooking_history, timers, margs, op, ret, ticks, paused_at, bound, was, aux>>

\* lines 117-118
ResumeSpawn ==
    /\ mpc = "resume_117"
    /\ timers' = SpawnTimer(timers)
    /\ mpc' = "idle"
    /\ was' = "none"
    /\ UNCHANGED <<engine, margs, op, ret, ticks, paused_at, bound, aux>>

\* ---- _cooking_timer -----------------------------------------------------
\* line 94, left operand of "and"
TimerTestTime(t) ==
    /\ t.pc = "test_rt"
    /\ Becomes(t, At(t, IF remaining_time > 0 THEN "test_run" ELSE "exit"))
    /\ UNCHANGED <<engine, mpc, margs, op, ret, ticks, paused_at, bound, was, aux>>

\* line 94, right operand of "and"
TimerTestRunning(t) ==
    /\ t.pc = "test_run"
    /\ Becomes(t, At(t, IF is_running THEN "sleep" ELSE "exit"))
    /\ UNCHANGED <<engine, mpc, margs, op, ret, ticks, paused_at, bound, was, aux>>

\* line 95 and the read of line 96: the sleep ends and remaining_time is read
TimerLoad(t) ==
    /\ t.pc = "sleep"
    /\ Becomes(t, [pc |-> "store", rt |-> remaining_time, arr |-> <<>>])
    /\ UNCHANGED <<engine, mpc, margs, op, ret, ticks, paused_at, bound, was, aux>>

\* the write of line 96
TimerStore(t) ==
    /\ t.pc = "store"
    /\ remaining_time' = t.rt - 1
    /\ ticks' = IF op = "start_new" /\ mpc \notin {"start_72", "start_73"}
               THEN ticks + 1 ELSE 0
    /\ Becomes(t, At(t, "roll"))
    /\ UNCHANGED <<is_running, current_power, current_stage, sensor_data,
                   cooking_history, mpc, margs, op, ret, paused_at, bound, was,
                   status, defrost, fed>>
    /\ Seen

\* np.roll(a, -1): every element one place to the left, the first one last
Roll(a) == Tail(a) \o <<Head(a)>>

\* line 99, the read and the roll
TimerRoll(t) ==
    /\ t.pc = "roll"
    /\ Becomes(t, [pc |-> "roll_store", rt |-> 0, arr |-> Roll(sensor_data)])
    /\ UNCHANGED <<engine, mpc, margs, op, ret, ticks, paused_at, bound, was, aux>>

\* line 99, the assignment
TimerRollStore(t) ==
    /\ t.pc = "roll_store"
    /\ sensor_data' = t.arr
    /\ Becomes(t, At(t, "set_last"))
    /\ UNCHANGED <<is_running, remaining_time, current_power, current_stage,
                   cooking_history, mpc, margs, op, ret, ticks, paused_at, bound, was,
                   status, defrost, fed>>
    /\ Seen

\* line 100
TimerSetLast(t, v) ==
    /\ t.pc = "set_last"
    /\ sensor_data' = [sensor_data EXCEPT ![SensorSize] = v]
    /\ fed' = IF bound.log THEN Append(fed, v) ELSE fed
    /\ Becomes(t, At(t, "test_rt"))
    /\ UNCHANGED <<is_running, remaining_time, current_power, current_stage,
                   cooking_history, mpc, margs, op, ret, ticks, paused_at, bound,
                   was, status, defrost>>
    /\ Seen

\* line 102, and the thread ends
TimerExit(t) ==
    /\ t.pc = "exit"
    /\ is_running' = FALSE
    /\ timers' = timers (-) SetToBag({t})
    /\ UNCHANGED <<remaining_time, current_power, current_stage, sensor_data,
                   cooking_history, mpc, margs, op, ret, ticks, paused_at, bound, was,
                   status, defrost, fed>>
    /\ Seen

\* An exception raised by time.sleep (line 95), np.roll (line 99) or
\* np.random.uniform (line 100): _cooking_timer has no try, so the exception
\* leaves the function and the thread ends without reaching line 102.
TimerFail(t) ==
    /\ t.pc \in {"sleep", "roll", "set_last"}
    /\ timers' = timers (-) SetToBag({t})
    /\ UNCHANGED <<engine, mpc, margs, op, ret, ticks, paused_at, bound, was, aux>>

\* ---- calculate_defrost_time ----------------------------------------------
\* lines 45-50
defrost_table ==
    [chicken |-> [thin |-> 3, thick |-> 6],
     beef |-> [thin |-> 4, thick |-> 8],
     fish |-> [thin |-> 2, thick |-> 4],
     vegetables |-> [thin |-> 2, thick |-> 3]]

\* dict.get(key, default)
Get(dict, key, default) == IF key \in DOMAIN dict THEN dict[key] ELSE default

\* line 122 with 0 for the default of the inner get
BaseTime_ZeroDefault(food_type, thickness) ==
    Get(Get(defrost_table, food_type, <<>>), thickness, 0)

\* line 122; <<>> is the empty dict
BaseTime(food_type, thickness) ==
    Get(Get(defrost_table, food_type, <<>>), thickness, DefaultBase)

\* lines 123-124: int(base_time * (weight_grams / 500) * 60).  For a weight
\* of k quarters of 500 g the quotient k/4 and both products are exact in
\* double arithmetic, and int() truncates the exact value
\* base_time * weight_grams * 60 / 500.
calculate_defrost_time(food_type, thickness, weight_grams) ==
    (BaseTime(food_type, thickness) * weight_grams * SecondsPerMinute) \div PortionGrams

\* the arguments the function is called with: the keys of the table, a food
\* type and a thickness it does not have, and whole quarters of the portion
FoodTypes == DOMAIN defrost_table \cup {"pork"}
Thicknesses == {"thin", "thick", "medium"}
Weights == {(k * PortionGrams) \div 4 : k \in 0..MaxQuarters}

\* the function has not returned
NotCalled == -1

InitDefrost ==
    /\ Engine0
    /\ defrost \in [food_type : FoodTypes, thickness : Thicknesses,
                     weight_grams : Weights, seconds : {NotCalled}]
    /\ bound = [dur |-> SmallDur, sessions |-> SmallSessions, threads |-> SmallThreads,
                log |-> FALSE]

\* the call of lines 120-124
CalculateDefrostTime ==
    /\ mpc = "idle"
    /\ defrost.seconds = NotCalled
    /\ defrost' = [defrost EXCEPT !.seconds =
                       calculate_defrost_time(defrost.food_type, defrost.thickness,
                                              defrost.weight_grams)]
    /\ UNCHANGED <<engine, timers, mpc, margs, op, ret, ticks, paused_at, bound,
                   was, status, fed, during>>

NextDefrost == CalculateDefrostTime

SpecDefrost == InitDefrost /\ [][NextDefrost]_vars

\* ---- get_status ----------------------------------------------------------
\* The Tk main loop calls get_status (update_status, every second), so it runs
\* on the command thread, between commands, while timer threads run.  The
\* dict display is evaluated key by key; current_power and current_stage are
\* written by the command thread only and are read with remaining_time.

\* the call and line 133
GetStatus ==
    /\ mpc = "idle"
    /\ status' = [NoStatus EXCEPT !.running = is_running]
    /\ during' = {View}
    /\ mpc' = "status_134"
    /\ UNCHANGED <<engine, timers, margs, op, ret, ticks, paused_at, bound,
                   was, defrost, fed>>

\* lines 134-136
StatusReadTime ==
    /\ mpc = "status_134"
    /\ status' = [status EXCEPT !.remaining_time = remaining_time,
                                !.current_power = current_power,
                                !.current_stage = current_stage]
    /\ mpc' = "status_137"
    /\ UNCHANGED <<engine, timers, margs, op, ret, ticks, paused_at, bound,
                   was, defrost, fed, during>>

\* get_status that clears is_running as it returns
StatusReadSensor_ClearsRunning ==
    /\ mpc = "status_137"
    /\ status' = [status EXCEPT !.sensor_reading =
                      IF Len(sensor_data) > 0 THEN sensor_data[Len(sensor_data)] ELSE 0]
    /\ is_running' = FALSE
    /\ during' = {}
    /\ mpc' = "idle"
    /\ UNCHANGED <<remaining_time, current_power, current_stage, sensor_data,
                   cooking_history, timers, margs, op, ret, ticks, paused_at, bound,
                   was, defrost, fed>>

\* lines 137-139
StatusReadSensor ==
    /\ mpc = "status_137"
    /\ status' = [status EXCEPT !.sensor_reading =
                      IF Len(sensor_data) > 0 THEN sensor_data[Len(sensor_data)] ELSE 0]
    /\ during' = {}
    /\ mpc' = "idle"
    /\ UNCHANGED <<engine, timers, margs, op, ret, ticks, paused_at, bound,
                   was, defrost, fed>>

\* ---- the system ---------------------------------------------------------
Threads == BagToSet(timers)

\* the steps of the command thread
Command ==
    \/ \E d \in Durations, ps \in PowerStage : StartCooking(d, ps[1], ps[2])
    \/ StartTestPaused
    \/ StartResumeSetRunning
    \/ StartResumeSpawn
    \/ StartSetRunning
    \/ StartSetTime
    \/ StartSetPowerStage
    \/ StartSpawn
    \/ StartRecord
    \/ StopCooking
    \/ StopClearTime
    \/ PauseCooking
    \/ ResumeCooking
    \/ ResumeSetRunning
    \/ ResumeSpawn

\* a timer thread's sleep ends
Wake == \E t \in Threads : TimerLoad(t)

\* the steps of a timer thread that is not asleep
Tick ==
    \/ \E t \in Threads : TimerTestTime(t)
    \/ \E t \in Threads : TimerTestRunning(t)
    \/ \E t \in Threads : TimerStore(t)
    \/ \E t \in Threads : TimerRoll(t)
    \/ \E t \in Threads : TimerRollStore(t)
    \/ \E t \in Threads, v \in Readings : TimerSetLast(t, v)
    \/ \E t \in Threads : TimerExit(t)

\* every interleaving of the threads
Next == Command \/ Wake \/ Tick

\* every timer thread is inside time.sleep(1)
Quiet == \A t \in Threads : t.pc = "sleep"

\* The schedules in which nothing races: a command is called, and runs, only
\* while every timer is asleep, and a sleep ends only between two commands and
\* while no other timer is awake, so that commands and loop iterations follow
\* one another whole.  Every behaviour of SpecSerial is a behaviour of Spec.
NextSerial ==
    \/ Quiet /\ \E d \in Durations, ps \in PowerStage : StartCooking(d, ps[1], ps[2])
    \/ Quiet /\ StartTestPaused
    \/ Quiet /\ StartResumeSetRunning
    \/ Quiet /\ StartResumeSpawn
    \/ Quiet /\ StartSetRunning
    \/ Quiet /\ StartSetTime
    \/ Quiet /\ StartSetPowerStage
    \/ Quiet /\ StartSpawn
    \/ Quiet /\ StartRecord
    \/ Quiet /\ StopCooking
    \/ Quiet /\ StopClearTime
    \/ Quiet /\ PauseCooking
    \/ Quiet /\ ResumeCooking
    \/ Quiet /\ ResumeSetRunning
    \/ Quiet /\ ResumeSpawn
    \/ Quiet /\ mpc = "idle" /\ Wake
    \/ Tick

Spec == Init /\ [][Next]_vars

SpecSmall == InitSmall /\ [][Next]_vars

SpecSerial == Init /\ [][NextSerial]_vars

SpecSensor == InitSensor /\ [][Next]_vars

\* The schedules of NextSerial with get_status called between commands at any
\* moment of a loop iteration, its reads interleaved with the timers' steps.
NextStatus ==
    \/ NextSerial
    \/ GetStatus
    \/ StatusReadTime
    \/ StatusReadSensor

SpecStatus == InitStatus /\ [][NextStatus]_vars

\* Every interleaving, with timer threads that are scheduled: a sleep that can
\* end does end, and a thread that is awake takes its next step.  The daemon
\* threads run as long as the process does; nothing obliges the user to call
\* a command.
SpecLive == InitLive /\ [][Next]_vars /\ WF_vars(Wake) /\ WF_vars(Tick)

\* The schedules of NextSerial with timer threads that may fail between two
\* commands.
NextFault ==
    \/ NextSerial
    \/ mpc = "idle" /\ \E t \in Threads : TimerFail(t)

SpecFault == Init /\ [][NextFault]_vars

TypeOK ==
    /\ is_running \in BOOLEAN
    /\ remaining_time \in Int
    /\ Len(sensor_data) = SensorSize
    /\ Len(cooking_history) <= bound.sessions
    /\ Alive <= bound.threads

\* the record of the session begun last
LastSession == cooking_history[Len(cooking_history)]

ValidHistory == \A i \in DOMAIN cooking_history : cooking_history[i].duration > 0

\* ---- C1 -----------------------------------------------------------------
\* C1: once stop_cooking has returned, and until another command is called,
\* the engine is not running and remaining_time is exactly 0.
C1_StopYieldsIdle ==
    (op = "stop" /\ mpc = "idle") => (~is_running /\ remaining_time = 0)

\* ---- C2 -----------------------------------------------------------------
\* C2: at most one timer thread is alive at any time.
C2_OneTimer == Alive <= 1

\* ---- C3 -----------------------------------------------------------------
\* the step on which resume_cooking returns
ResumeReturns ==
    /\ mpc' = "idle"
    /\ \/ mpc = "resume_117"
       \/ mpc = "idle" /\ ResumeCooking

\* C3: when a resume that directly follows the pause of a running session
\* returns, remaining_time, current_power and current_stage are what they
\* were when pause was called.
C3_PauseResumePreserves ==
    [][(ResumeReturns /\ paused_at.valid) =>
          /\ remaining_time' = paused_at.rem
          /\ current_power' = paused_at.pow
          /\ current_stage' = paused_at.stage]_vars

\* ---- C4 -----------------------------------------------------------------
\* C4: when a start with d > 0 that found the engine idle returns, the engine
\* is running with remaining_time = d, current_power = p and current_stage = s.
C4_StartYieldsRunning ==
    [][(mpc = "start_88" /\ mpc' = "idle" /\ margs.d > 0) =>
          /\ is_running'
          /\ remaining_time' = margs.d
          /\ current_power' = margs.p
          /\ current_stage' = margs.s]_vars

\* ---- C5 -----------------------------------------------------------------
\* C5: a start called while the engine is running returns False at once and
\* changes no field, no history record and no timer thread.
C5_StartWhileRunningRejected ==
    [][(mpc = "idle" /\ is_running
            /\ \E d \in Durations, ps \in PowerStage : StartCooking(d, ps[1], ps[2])) =>
          /\ ret' = "False"
          /\ mpc' = "idle"
          /\ UNCHANGED <<engine, timers>>]_vars

\* a start has been rejected, and the session it met is still running
C5_Witness ==
    /\ op = "start" /\ ret = "False" /\ mpc = "idle"
    /\ is_running /\ remaining_time > 0 /\ Alive = 1

\* ---- C6 -----------------------------------------------------------------
\* C6: a start with a duration <= 0 creates no session: it never gets past
\* line 72 on the new-session path and no record of it is appended.
C6_InvalidDurationRejected ==
    /\ mpc \in {"start_73", "start_74", "start_78", "start_88"} => margs.d > 0
    /\ ValidHistory

\* ---- C7 -----------------------------------------------------------------
\* C7: after start(d) has returned, with no other command since and only
\* positive durations ever started, the engine is running with
\* remaining_time = d - ticks until d ticks have been made, and has
\* remaining_time = 0 from the d-th tick on.
C7_CountdownExact ==
    (op = "start_new" /\ mpc = "idle" /\ ValidHistory) =>
        IF ticks < LastSession.duration
        THEN is_running /\ remaining_time = LastSession.duration - ticks
        ELSE remaining_time = 0

\* ---- C8 -----------------------------------------------------------------
\* C8: between commands, with only sessions of positive duration started,
\* remaining_time = 0 implies the engine is not running.
C8_ZeroImpliesNotRunning ==
    (mpc = "idle" /\ ValidHistory /\ remaining_time = 0) => ~is_running

\* ---- C9 -----------------------------------------------------------------
\* C9: remaining_time is never negative.
C9_NonNegative == remaining_time >= 0

\* ---- C10 ----------------------------------------------------------------
\* C10: once pause or stop has returned, and until another command is called,
\* no step changes remaining_time or sensor_data.
C10_NoTickWhenNotRunning ==
    [][(op \in {"pause", "stop"} /\ mpc = "idle") =>
          /\ remaining_time' = remaining_time
          /\ sensor_data' = sensor_data]_vars

\* ---- C11 ----------------------------------------------------------------
\* C11: a resume called while the engine is not paused (it is idle, or it is
\* running) is a no-op: none of its steps changes a field of the engine or
\* starts a timer thread.
C11_ResumeNoOpUnlessPaused ==
    [][/\ (mpc = "idle" /\ Phase # "Paused" /\ ResumeCooking) =>
              UNCHANGED <<engine, timers>>
       /\ (mpc \in {"resume_116", "resume_117"} /\ mpc' # mpc /\ was # "Paused") =>
              UNCHANGED <<engine, timers>>]_vars

\* ---- C12 ----------------------------------------------------------------
\* C12: a start called while the engine is paused takes the lines 66-69 only:
\* its steps leave remaining_time, current_power, current_stage and the
\* history as they are, and it returns True with the engine running.
C12_StartWhilePausedResumes ==
    [][(mpc \in {"start_65", "start_66", "start_67"} /\ mpc' # mpc /\ was = "Paused") =>
          /\ mpc' \in {"start_66", "start_67", "idle"}
          /\ UNCHANGED <<remaining_time, current_power, current_stage, cooking_history>>
          /\ mpc' = "idle" => (ret' = "True" /\ is_running')]_vars

get_cooking_history == cooking_history

\* the record start_cooking builds from the arguments of the call in progress
CallRecord == [duration |-> margs.d, power |-> margs.p, stage |-> margs.s]

\* C14: the history grows by exactly one record, that of the call, at the
\* return of every start that was called on an idle engine, and at no other
\* step: its length is the number of those calls and its order theirs.
C14_LedgerCountsStarts ==
    [][/\ get_cooking_history' # get_cooking_history =>
              /\ was = "Idle" /\ mpc = "start_88" /\ mpc' = "idle" /\ ret' = "True"
              /\ get_cooking_history' = Append(get_cooking_history, CallRecord)
       /\ (mpc \in {"start_67", "start_88"} /\ mpc' = "idle" /\ was = "Idle") =>
              get_cooking_history' = Append(get_cooking_history, CallRecord)]_vars

\* ---- C15 ----------------------------------------------------------------
\* C15: when a start that took lines 71-90 returns, it returns True and the
\* last record of the history is the record of that call; no step removes or
\* alters a record, so every later read of the history contains it.
C15_RecordBeforeReturn ==
    [][/\ (mpc = "start_88" /\ mpc' = "idle") =>
              /\ ret' = "True"
              /\ Len(get_cooking_history') > 0
              /\ get_cooking_history'[Len(get_cooking_history')] = CallRecord
       /\ Len(get_cooking_history') >= Len(get_cooking_history)
       /\ SubSeq(get_cooking_history', 1, Len(get_cooking_history)) = get_cooking_history]_vars

\* start_cooking(1, 30, DEFROST) has returned True and its record is the last
C15_Witness ==
    /\ op = "start_new" /\ mpc = "idle" /\ ret = "True"
    /\ Len(get_cooking_history) > 0
    /\ LastSession = [duration |-> 1, power |-> LOW, stage |-> DEFROST]

\* ---- C16 ----------------------------------------------------------------
\* a timer thread is between the roll of line 99 and the store of line 100
Advancing == \E t \in Threads : t.pc \in {"roll_store", "set_last"}

Min(a, b) == IF a < b THEN a ELSE b

\* the last k elements of a sequence
LastOf(q, k) == SubSeq(q, Len(q) - k + 1, Len(q))

\* C16: sensor_data never holds more than SensorSize readings, and whenever
\* no advance is in progress its last min(n, SensorSize) elements are the
\* last min(n, SensorSize) of the n readings stored so far, in their order.
C16_WindowHoldsLastReadings ==
    /\ Len(sensor_data) <= SensorSize
    /\ ~Advancing =>
           LastOf(sensor_data, Min(Len(fed), SensorSize)) =
               LastOf(fed, Min(Len(fed), SensorSize))

\* ---- C17 ----------------------------------------------------------------
\* n / d rounded to the nearest integer, halves upwards
Round(n, d) == (2 * n + d) \div (2 * d)

\* C17: the result is the number of minutes base * weight / 500 rounded to a
\* whole number, times 60.
C17_RoundedMinutes ==
    defrost.seconds # NotCalled =>
        defrost.seconds =
            Round(BaseTime(defrost.food_type, defrost.thickness) * defrost.weight_grams,
                  PortionGrams) * SecondsPerMinute

\* ---- C18 ----------------------------------------------------------------
\* C18: a call returns a number of seconds for every argument and changes
\* nothing of the engine; for a food type or a thickness the table does not
\* have, the result is that of chicken/thin, whose base time is 3.
C18_TotalWithDefault ==
    [][CalculateDefrostTime =>
          /\ UNCHANGED <<engine, timers>>
          /\ defrost'.seconds \in Nat
          /\ (defrost.food_type \notin DOMAIN defrost_table
                  \/ defrost.thickness \notin {"thin", "thick"}) =>
                 defrost'.seconds =
                     calculate_defrost_time("chicken", "thin", defrost.weight_grams)]_vars

\* calculate_defrost_time("pork", "thin", 500) has returned 180
C18_Witness ==
    /\ defrost.food_type = "pork" /\ defrost.thickness = "thin"
    /\ defrost.weight_grams = 500 /\ defrost.seconds = 180

\* ---- C19 ----------------------------------------------------------------
\* C19: no step of get_status changes a field of the engine or a timer
\* thread.
C19_StatusReadOnly ==
    [][(GetStatus \/ StatusReadTime \/ StatusReadSensor) =>
          UNCHANGED <<engine, timers>>]_vars

\* get_status has returned the fields of a running session, which still has
\* them
C19_Witness ==
    /\ mpc = "idle"
    /\ status = [running |-> TRUE, remaining_time |-> 1, current_power |-> LOW,
                 current_stage |-> DEFROST, sensor_reading |-> 0]
    /\ is_running /\ remaining_time = 1 /\ current_power = LOW
    /\ current_stage = DEFROST /\ Alive = 1

\* ---- C20 ----------------------------------------------------------------
\* C20: between a timer thread's read of remaining_time (line 96) and its
\* store of the decremented value no other thread writes remaining_time: the
\* value the thread holds is still the value of the field when it stores.
C20_TickAtomic ==
    \A t \in Threads : t.pc = "store" => t.rt = remaining_time

\* ---- C21 ----------------------------------------------------------------
\* C21: the dict get_status returns is the value View had at one moment
\* between the call and the return.
C21_ConsistentSnapshot ==
    [][(mpc = "status_137" /\ mpc' = "idle") => status' \in during]_vars

\* ---- C22 ----------------------------------------------------------------
\* C22: every step keeps every record of the history where it is and as it
\* is, and a record that a step adds is added at the end and holds the
\* duration, power and stage of the start call in progress.
C22_AppendOnly ==
    [][/\ \A i \in DOMAIN cooking_history :
              i \in DOMAIN cooking_history' /\ cooking_history'[i] = cooking_history[i]
       /\ \A i \in DOMAIN cooking_history' \ DOMAIN cooking_history :
              i = Len(cooking_history) + 1 /\ cooking_history'[i] = CallRecord]_vars

\* a second session has been recorded behind the first, which is as it was
C22_Witness ==
    /\ mpc = "idle"
    /\ get_cooking_history = <<[duration |-> 1, power |-> HIGH, stage |-> COOK],
                               [duration |-> 2, power |-> LOW, stage |-> DEFROST]>>

\* ---- C23 ----------------------------------------------------------------
\* C23: a step on which a timer thread fails leaves the engine not running
\* with remaining_time = 0.
C23_FailureLeavesIdle ==
    [][(\E t \in Threads : TimerFail(t)) =>
          (~is_running' /\ remaining_time' = 0)]_vars

\* ---- C24 ----------------------------------------------------------------
\* line 100 has stored a reading: only it puts a value other than 0 in
\* sensor_data
Advanced == \E i \in DOMAIN sensor_data : sensor_data[i] # 0

\* C24: the sensor_reading get_status returns is 0 as long as sensor_data is
\* as constructed, and once a reading has been stored it is a reading, a
\* value from SensorLow to SensorHigh.
C24_ReportsLatestReading ==
    [][(mpc = "status_137" /\ mpc' = "idle") =>
          IF Advanced
          THEN status'.sensor_reading \in SensorLow..SensorHigh
          ELSE status'.sensor_reading = 0]_vars

\* ---- C25 ----------------------------------------------------------------
\* the command called last is a start or a resume
Resumed == op \in {"start_new", "start_resume", "resume"}

\* C25: whenever a start or a resume has returned and the session is running
\* with time left, then eventually the session is over (not running, no time
\* left), unless another command is called first.
C25_RunningSessionEnds ==
    (mpc = "idle" /\ Resumed /\ is_running /\ remaining_time > 0)
        ~> \/ ~is_running /\ remaining_time <= 0
           \/ mpc # "idle"
           \/ ~Resumed

\* ---- C26 ----------------------------------------------------------------
\* C26: a step that changes current_power, current_stage or the history is a
\* step of a start on its new-session path (lines 74-75 and 88); so a
\* get_status that returns after a stop reports the power and the stage of
\* the session recorded last.
C26_OnlyNewSessionWrites ==
    [][/\ <<current_power, current_stage, cooking_history>>' #
              <<current_power, current_stage, cooking_history>> =>
                 op = "start_new" /\ mpc \in {"start_74", "start_88"} /\ mpc' # mpc
       /\ (mpc = "status_137" /\ mpc' = "idle" /\ op = "stop" /\ cooking_history # <<>>) =>
              /\ status'.current_power = LastSession.power
              /\ status'.current_stage = LastSession.stage]_vars

\* after start_cooking(1, 30, DEFROST) and stop_cooking, get_status has
\* reported an engine that is not running, with power 30 and stage defrost
C26_Witness ==
    /\ mpc = "idle" /\ op = "stop" /\ Len(cooking_history) = 1
    /\ status = [running |-> FALSE, remaining_time |-> 0, current_power |-> LOW,
                 current_stage |-> DEFROST, sensor_reading |-> 0]
    /\ current_power = LOW /\ current_stage = DEFROST

====
